---- MODULE Spec2Model ----
(***************************************************************************)
(* Model of the complexity metrics of aeroblade/complexities.py (the three *)
(* memoized backends, Complexity.compute, complexity_from_config) and of   *)
(* the dataset utility script images_to_dataset.py.                        *)
(*                                                                         *)
(* Five specifications share the module:                                   *)
(*   SpecCompute  one compute call on any metric and any bounded dataset   *)
(*   SpecCache    sequences of compute calls against the joblib cache      *)
(*   SpecFactory  complexity_from_config on bounded config strings         *)
(*   SpecScript   main() of images_to_dataset.py: download, then convert   *)
(*   SpecCrop     the same main() on one picture of every bounded size     *)
(***************************************************************************)
EXTENDS Integers, Sequences, FiniteSets, TLC

VARIABLES
    cache,          \* joblib store of the three backends: key -> stored table
    interpCache,    \* joblib store of cached_meaningful_interpret: key -> output
    last,           \* the outcome of the latest compute call (NoCall before any)
    returned,       \* history: full call -> the result its first return gave
    budget,         \* compute calls still allowed in this behaviour
    universe,       \* the datasets and the metrics the caller computes with
    made,           \* the outcome of the latest complexity_from_config call
    pc,             \* position of main(): "idle", "download", "convert", "done"
    job,            \* the command line of main() and the remote world it reads
    idx,            \* index of the current loop iteration (1-based)
    disk,           \* download directory: file name -> content
    downloaded_files,
    valid_images,
    trail           \* what each loop iteration did, in order

metricVars == <<cache, interpCache, last, returned, budget, universe>>
factoryVars == <<made>>
scriptVars == <<pc, job, idx, disk, downloaded_files, valid_images, trail>>
vars == <<metricVars, factoryVars, scriptVars>>

\* Optional[int]: None is the empty sequence, a value v is <<v>>
None == <<>>
Some(v) == <<v>>

\* ------------------------------------------------------------------ bounds

MaxImages == 2
MaxCalls == 2

\* ---------------------------------------------------------------- datasets

Shapes == {<<64, 64>>, <<128, 128>>, <<16, 32>>}
Textures == {"flat", "half"}

ShapeName(s) ==
    IF s = <<64, 64>> THEN "64x64.png"
    ELSE IF s = <<128, 128>> THEN "128x128.png" ELSE "16x32.png"

AllImages ==
    {[path |-> <<"data", t, ShapeName(s)>>, h |-> s[1], w |-> s[2], tex |-> t] :
        s \in Shapes, t \in Textures}

Datasets(n) == UNION {[1..k -> AllImages] : k \in 0..n}

ImgPaths(ds) == [i \in 1..Len(ds) |-> ds[i].path]

\* Path(f).name: the last component of the path
PathName(p) == p[Len(p)]

\* One item of the data set as the loader's batch of one: tensor[0] is the image.
WholeImage(img) ==
    [h |-> img.h, w |-> img.w, uniform |-> (img.tex = "flat"),
     px |-> <<img.tex, img.h, img.w, "whole", 0, 0>>]

PatchAt(img, size, r, c) ==
    [h |-> size, w |-> size,
     uniform |-> (img.tex = "flat" \/ (r = 0 /\ c = 0)),
     px |-> <<img.tex, img.h, img.w, "patch", r, c>>]

\* extract_patches fails when the window exceeds the image's smaller dimension
ExtractFails(img, size, stride) == size > img.h \/ size > img.w

\* extract_patches(array, size, stride)[0]: row-major sliding window over
\* height and width, partial windows at the border dropped.
ExtractPatches(img, size, stride) ==
    LET nr == (img.h - size) \div stride + 1
        nc == (img.w - size) \div stride + 1
    IN  [k \in 1..(nr * nc) |->
            PatchAt(img, size, ((k - 1) \div nc) * stride, ((k - 1) % nc) * stride)]

\* DataLoader(ds, batch_size=1, num_workers): batch i is item i. With workers,
\* batch i is produced by worker (i-1) % num_workers as its ((i-1) \div
\* num_workers + 1)-th task and the loader hands the batches out by index.
WorkerTasks(ds, nw, wk) ==
    SelectSeq([i \in 1..Len(ds) |-> i], LAMBDA i : (i - 1) % nw = wk)

\* mutant: with workers, batches come out as the workers finish, last first
DataLoaderUnordered(ds, nw) ==
    IF nw = 0 THEN ds ELSE [i \in 1..Len(ds) |-> ds[Len(ds) + 1 - i]]

DataLoader(ds, nw) ==
    IF nw = 0 THEN ds
    ELSE [i \in 1..Len(ds) |->
            ds[WorkerTasks(ds, nw, (i - 1) % nw)[(i - 1) \div nw + 1]]]

\* ----------------------------------------------------------------- metrics

\* JPEG.__init__
JPEG(quality, patch_size, patch_stride, num_workers) ==
    [cls |-> "JPEG", quality |-> quality, patch_size |-> patch_size,
     patch_stride |-> patch_stride, num_workers |-> num_workers]

\* Variance.__init__
Variance(patch_size, patch_stride, neighborhood_size, num_workers) ==
    [cls |-> "Variance", patch_size |-> patch_size, patch_stride |-> patch_stride,
     neighborhood_size |-> neighborhood_size, num_workers |-> num_workers]

\* Meaningful.__init__
Meaningful(comp_meas_params, patch_size, patch_stride, num_workers) ==
    [cls |-> "Meaningful", comp_meas_params |-> comp_meas_params,
     patch_size |-> patch_size, patch_stride |-> patch_stride,
     num_workers |-> num_workers]

\* the parameter set complexity_from_config gives the estimator
DefaultCompMeasParams ==
    [ncs_to_check |-> 8, n_cluster_inits |-> 1, nz |-> 2, num_levels |-> 4,
     cluster_model |-> "GMM", info_subsample |-> "0.3",
     suppress_all_prints |-> TRUE]

DefaultNeighborhood == 8
DefaultQuality == 50

\* the values the callers of the model pass for each parameter
Qualities == {DefaultQuality, 75}
Neighborhoods == {DefaultNeighborhood, 3}
CompMeasParams ==
    {DefaultCompMeasParams, [DefaultCompMeasParams EXCEPT !.num_levels = 2]}
Geometries ==
    {<<None, None>>, <<None, Some(32)>>, <<Some(32), Some(32)>>,
     <<Some(32), Some(64)>>}
Workers == {0, 2}

AllMetrics ==
    UNION {
        {JPEG(q, g[1], g[2], nw) : q \in Qualities}
        \cup {Variance(g[1], g[2], nb, nw) : nb \in Neighborhoods}
        \cup {Meaningful(cp, g[1], g[2], nw) : cp \in CompMeasParams}
        : g \in Geometries, nw \in Workers}

\* ------------------------------------------------------------ raw scores

Zero == [kind |-> "zero"]

\* len(encode_jpeg(convert_image_dtype(patch, uint8), quality)): the codec is
\* an opaque function of the pixels and the quality
EncodeJpegLen(patch, quality) ==
    [kind |-> "nbytes", px |-> patch.px, quality |-> quality]

\* np.mean(calculate_pixel_variance(patch_np, neighborhood_size))
PatchVariance(patch, neighborhood_size) ==
    [kind |-> "variance", px |-> patch.px, neighborhood_size |-> neighborhood_size]

\* MeaningfulComplexity(**comp_meas_params).interpret(patch_np), summed
Interpret(comp_meas_params, px) ==
    [kind |-> "interp", px |-> px, comp_meas_params |-> comp_meas_params]

\* tensor / scalar: the value raw / den; 0 / den is 0 whatever den is
Quotient(raw, den) ==
    IF raw.kind = "zero" THEN [num |-> Zero, den |-> 1]
    ELSE [num |-> raw, den |-> den]

\* ----------------------------------------------------------- the backends

\* the patches of one batch: the whole image when patch_size is None
PatchesOf(img, patch_size, patch_stride) ==
    IF patch_size = None THEN <<WholeImage(img)>>
    ELSE ExtractPatches(img, patch_size[1], patch_stride[1])

PatchingFails(img, patch_size, patch_stride) ==
    /\ patch_size # None
    /\ ExtractFails(img, patch_size[1], patch_stride[1])

\* torch.stack(image_results): needs a non-empty list of equally long rows
StackFails(rows) ==
    \/ Len(rows) = 0
    \/ \E i \in 1..Len(rows) : Len(rows[i]) # Len(rows[1])

\* the raw score a backend gives one patch
\* (_compute_meaningful: 0 for a uniform patch, else np.sum of the estimate)
IsUniform(patch) == patch.uniform

PatchScore(fn, a, patch) ==
    IF fn = "_compute_jpeg" THEN EncodeJpegLen(patch, a.quality)
    ELSE IF fn = "_compute_variance" THEN PatchVariance(patch, a.neighborhood_size)
    ELSE IF IsUniform(patch) THEN Zero
    ELSE Interpret(a.comp_meas_params, patch.px)

TensorType(fn) == IF fn = "_compute_variance" THEN "float32" ELSE "float16"

\* the number of batches the loop handles before extract_patches raises
RECURSIVE Handled(_, _, _, _)
Handled(batches, patch_size, patch_stride, n) ==
    IF n = Len(batches) \/ PatchingFails(batches[n + 1], patch_size, patch_stride)
    THEN n
    ELSE Handled(batches, patch_size, patch_stride, n + 1)

\* patch.shape[1] * patch.shape[2] after the loops: `patch` is the loop
\* variable, still bound to the last patch of the last batch
Divisor(batches, patch_size, patch_stride) ==
    LET lastPatches == PatchesOf(batches[Len(batches)], patch_size, patch_stride)
        patch == lastPatches[Len(lastPatches)]
    IN  patch.h * patch.w

\* The body of a backend (the three bodies are the same loop around their
\* own per-patch score): [ok, table, dtype], table the stacked rows divided
\* by Divisor; ok is FALSE when extract_patches or torch.stack raises.
RunBackend(fn, a) ==
    LET batches == DataLoader(a.ds, a.num_workers)
        done == Handled(batches, a.patch_size, a.patch_stride, 0)
        image_results ==
            [i \in 1..done |->
                LET patches == PatchesOf(batches[i], a.patch_size, a.patch_stride)
                IN  [j \in 1..Len(patches) |-> PatchScore(fn, a, patches[j])]]
    IN  IF done < Len(batches) \/ StackFails(image_results)
        THEN [ok |-> FALSE, table |-> <<>>, dtype |-> TensorType(fn)]
        ELSE [ok |-> TRUE,
              table |->
                [i \in 1..done |->
                    [j \in 1..Len(image_results[i]) |->
                        Quotient(image_results[i][j],
                                 Divisor(batches, a.patch_size, a.patch_stride))]],
              dtype |-> TensorType(fn)]

RECURSIVE Flatten(_)
Flatten(ss) == IF ss = <<>> THEN <<>> ELSE Head(ss) \o Flatten(Tail(ss))

\* the patches _compute_meaningful hands to cached_meaningful_interpret, in
\* loop order (none for the other two backends)
InterpretCalls(fn, a) ==
    IF fn # "_compute_meaningful" THEN <<>>
    ELSE LET batches == DataLoader(a.ds, a.num_workers)
             done == Handled(batches, a.patch_size, a.patch_stride, 0)
         IN  Flatten([i \in 1..done |->
                 SelectSeq(PatchesOf(batches[i], a.patch_size, a.patch_stride),
                           LAMBDA patch : ~IsUniform(patch))])

\* ------------------------------------------------------------ memoization

\* @mem.cache(ignore=["num_workers"]) on the three backends, @mem.cache on
\* cached_meaningful_interpret
\* mutant: the quality is left out of the key as well
IgnoreQualityToo(fn) ==
    IF fn = "cached_meaningful_interpret" THEN {} ELSE {"num_workers", "quality"}

Ignore(fn) ==
    IF fn = "cached_meaningful_interpret" THEN {} ELSE {"num_workers"}

\* joblib: an entry is addressed by the function and its non-ignored arguments
MemoKey(fn, args) == <<fn, [f \in (DOMAIN args) \ Ignore(fn) |-> args[f]]>>

\* mutant: the store is never consulted
MemoHitNever(store, key) == FALSE

MemoHit(store, key) == key \in DOMAIN store

MemoStore(store, key, value) ==
    [k \in (DOMAIN store) \cup {key} |-> IF k = key THEN value ELSE store[k]]

\* cached_meaningful_interpret called for each patch of `patches` in turn
RECURSIVE InterpretAll(_, _, _)
InterpretAll(store, comp_meas_params, patches) ==
    IF patches = <<>> THEN store
    ELSE LET args == [comp_meas_params |-> comp_meas_params,
                      patch_np |-> Head(patches).px]
             key == MemoKey("cached_meaningful_interpret", args)
         IN  InterpretAll(
                 IF MemoHit(store, key) THEN store
                 ELSE MemoStore(store, key, Interpret(comp_meas_params, args.patch_np)),
                 comp_meas_params, Tail(patches))

\* ---------------------------------------------------- Complexity.compute

\* JPEG._compute, Variance._compute, Meaningful._compute: the backend call
CallOf(m, ds) ==
    IF m.cls = "JPEG" THEN
        [fn |-> "_compute_jpeg",
         args |-> [ds |-> ds, quality |-> m.quality, patch_size |-> m.patch_size,
                   patch_stride |-> m.patch_stride, num_workers |-> m.num_workers]]
    ELSE IF m.cls = "Variance" THEN
        [fn |-> "_compute_variance",
         args |-> [ds |-> ds, patch_size |-> m.patch_size,
                   patch_stride |-> m.patch_stride,
                   neighborhood_size |-> m.neighborhood_size,
                   num_workers |-> m.num_workers]]
    ELSE
        [fn |-> "_compute_meaningful",
         args |-> [ds |-> ds, comp_meas_params |-> m.comp_meas_params,
                   patch_size |-> m.patch_size, patch_stride |-> m.patch_stride,
                   num_workers |-> m.num_workers]]

\* _postprocess: the name the scores are returned under
ScoreName(m) ==
    IF m.cls = "JPEG" THEN <<"jpeg_", m.quality>>
    ELSE IF m.cls = "Variance" THEN <<"variance">> ELSE <<"meaningful">>

Postprocess(m, result) == [name |-> ScoreName(m), scores |-> result]

\* files = [Path(f).name for f in ds.img_paths]
FileNames(ds) == [i \in 1..Len(ImgPaths(ds)) |-> PathName(ImgPaths(ds)[i])]

NoCall == [outcome |-> "none"]
Raised == [name |-> <<"raised">>, scores |-> <<>>]

\* metric.compute(ds): the file names, the memoized backend call, _postprocess
ComputeCall(m, ds) ==
    /\ LET call == CallOf(m, ds)
           key == MemoKey(call.fn, call.args)
           hit == MemoHit(cache, key)
           run == RunBackend(call.fn, call.args)
           ok == hit \/ run.ok
           result == IF hit THEN cache[key] ELSE [table |-> run.table, dtype |-> run.dtype]
           out == IF ok THEN Postprocess(m, result) ELSE Raised
       IN  /\ cache' = IF ~hit /\ run.ok THEN MemoStore(cache, key, result) ELSE cache
           /\ interpCache' =
                IF hit \/ call.fn # "_compute_meaningful" THEN interpCache
                ELSE InterpretAll(interpCache, m.comp_meas_params,
                                  InterpretCalls(call.fn, call.args))
           /\ returned' =
                IF ok /\ call \notin DOMAIN returned
                THEN MemoStore(returned, call, out) ELSE returned
           /\ last' = [outcome |-> IF ok THEN "ok" ELSE "error",
                       call |-> call,
                       hit |-> hit, ran |-> ~hit,
                       repeat |-> call \in DOMAIN returned,
                       result |-> out,
                       files |-> IF ok THEN FileNames(ds) ELSE <<>>,
                       interpret_calls |->
                            IF hit THEN <<>> ELSE InterpretCalls(call.fn, call.args)]
           /\ budget' = budget - 1
    /\ UNCHANGED <<universe, factoryVars, scriptVars>>

\* a caller computes a metric of its choice over a dataset of its choice
Compute ==
    /\ budget > 0
    /\ \E m \in universe.metrics, ds \in universe.datasets : ComputeCall(m, ds)

\* ------------------------------------------------- complexity_from_config

\* A config string is a sequence of tokens standing for their concatenation.
\* No token is a prefix of another and only "jpeg" begins with a "j", so two
\* token sequences are the same string only when they are equal, and a string
\* starts with "jpeg" exactly when its first token is "jpeg".
Tokens == {"jpeg", "_", "5", "7", "-", "variance", "meaningful"}

MaxTokens == 4

Configs == UNION {[1..k -> Tokens] : k \in 0..MaxTokens}

Digits == <<"0", "1", "2", "3", "4", "5", "6", "7", "8", "9">>

IsDigit(t) == \E d \in 1..10 : Digits[d] = t

DigitValue(t) == (CHOOSE d \in 1..10 : Digits[d] = t) - 1

\* config.startswith("jpeg")
StartsWithJpeg(config) == Len(config) >= 1 /\ config[1] = "jpeg"

\* config.split("_"): the pieces between the separators, empty ones kept
RECURSIVE SplitFrom(_, _, _)
SplitFrom(config, i, piece) ==
    IF i > Len(config) THEN <<piece>>
    ELSE IF config[i] = "_" THEN <<piece>> \o SplitFrom(config, i + 1, <<>>)
    ELSE SplitFrom(config, i + 1, Append(piece, config[i]))

Split(config) == SplitFrom(config, 1, <<>>)

\* the value of a run of decimal digits, most significant first
RECURSIVE DigitsValue(_, _)
DigitsValue(ds, acc) ==
    IF ds = <<>> THEN acc
    ELSE DigitsValue(Tail(ds), 10 * acc + DigitValue(Head(ds)))

\* int(text): an optional sign, then one or more digits; anything else is a
\* ValueError
IntParses(text) ==
    LET body == IF text # <<>> /\ Head(text) \in {"-", "+"} THEN Tail(text) ELSE text
    IN  body # <<>> /\ \A i \in 1..Len(body) : IsDigit(body[i])

\* mutant: the sign is dropped
IntValueUnsigned(text) ==
    IF Head(text) \in {"-", "+"} THEN DigitsValue(Tail(text), 0)
    ELSE DigitsValue(text, 0)

IntValue(text) ==
    IF Head(text) = "-" THEN 0 - DigitsValue(Tail(text), 0)
    ELSE IF Head(text) = "+" THEN DigitsValue(Tail(text), 0)
    ELSE DigitsValue(text, 0)

Raise(error) == [outcome |-> "raise", error |-> error, constructed |-> 0]
Give(metric) == [outcome |-> "metric", metric |-> metric, constructed |-> 1]

\* complexity_from_config(config, patch_size, patch_stride, batch_size, num_workers)
ComplexityFromConfig(config, patch_size, patch_stride, batch_size, num_workers) ==
    IF StartsWithJpeg(config) THEN
        LET parts == Split(config)
        IN  IF Len(parts) # 2 THEN Raise("ValueError")
            ELSE IF ~IntParses(parts[2]) THEN Raise("ValueError")
            ELSE Give(JPEG(IntValue(parts[2]), patch_size, patch_stride, num_workers))
    ELSE IF config = <<"variance">> THEN
        Give(Variance(patch_size, patch_stride, DefaultNeighborhood, num_workers))
    ELSE IF config = <<"meaningful">> THEN
        Give(Meaningful(DefaultCompMeasParams, patch_size, patch_stride, num_workers))
    ELSE Raise("NotImplementedError")

SharedArgs ==
    {[patch_size |-> ps, patch_stride |-> st, batch_size |-> 1, num_workers |-> nw] :
        ps \in {None, Some(32)}, st \in {None, Some(16)}, nw \in Workers}

FactoryCall(config, sh, nth, before) ==
    [outcome |-> "called", config |-> config, shared |-> sh,
     nth |-> nth, before |-> before,
     result |-> ComplexityFromConfig(config, sh.patch_size, sh.patch_stride,
                                     sh.batch_size, sh.num_workers)]

\* a caller calls the factory
FromConfig ==
    /\ made.outcome = "none"
    /\ \E config \in Configs, sh \in SharedArgs :
            made' = FactoryCall(config, sh, 1, <<>>)
    /\ UNCHANGED <<metricVars, scriptVars>>

\* the caller calls it once more with the same arguments
FromConfigAgain ==
    /\ made.outcome = "called" /\ made.nth = 1
    /\ made' = FactoryCall(made.config, made.shared, 2, <<made.result>>)
    /\ UNCHANGED <<metricVars, scriptVars>>

\* ------------------------------------------------- images_to_dataset.py

MaxUrls == 3
MaxSide == 4

Junk == [kind |-> "junk"]
Picture(w, h) == [kind |-> "image", w |-> w, h |-> h]

\* file names as stem and suffix
FileName(stem, ext) == [stem |-> stem, ext |-> ext]

\* download_dir / Path(url.split('?')[0]).name
DownloadName(url) == url.name

\* output_dir / input_file.with_suffix(".png").name
OutputName(input_file) == FileName(input_file.stem, "png")

\* the size test of convert_and_filter_images
MeetsCriteria(width, height, min_side, max_pixels) ==
    LET smaller_side == IF width <= height THEN width ELSE height
        total_pixels == width * height
    IN  /\ (min_side = None \/ smaller_side >= min_side[1])
        /\ (max_pixels = None \/ total_pixels <= max_pixels[1])

\* mutant: the crop size is not clamped to the image
CropSizeUnclamped(image_size, smaller_side) == image_size

\* crop_size = min(image_size, smaller_side)
CropSize(image_size, smaller_side) ==
    IF image_size <= smaller_side THEN image_size ELSE smaller_side

\* the centre crop box (left, top, right, bottom)
CropBox(width, height, image_size) ==
    LET crop_size == CropSize(image_size, IF width <= height THEN width ELSE height)
        left == (width - crop_size) \div 2
        top == (height - crop_size) \div 2
    IN  <<left, top, left + crop_size, top + crop_size>>

\* mutant: a failure is not caught and ends the loop
NextItemAbort(i, n, failed) == IF failed THEN n + 1 ELSE i + 1

\* where the loop goes after an iteration: the except clause logs the
\* failure and the for loop takes the next item
NextItem(i, n, failed) == i + 1

FileWrite(store, name, content) ==
    [k \in (DOMAIN store) \cup {name} |-> IF k = name THEN content ELSE store[k]]

\* one iteration of the loop of download_images
DownloadStep ==
    /\ pc = "download" /\ idx <= Len(job.urls)
    /\ LET url == job.urls[idx]
           filename == DownloadName(url)
           failed == url.fetch # "ok"
       IN  /\ disk' = IF url.fetch = "ok" THEN FileWrite(disk, filename, url.body)
                      ELSE IF url.fetch = "write_error" THEN FileWrite(disk, filename, Junk)
                      ELSE disk
           /\ downloaded_files' = IF failed THEN downloaded_files
                                  ELSE Append(downloaded_files, filename)
           /\ trail' = Append(trail,
                          [phase |-> "download", item |-> idx,
                           what |-> IF failed THEN "failed" ELSE "downloaded"])
           /\ idx' = NextItem(idx, Len(job.urls), failed)
    /\ UNCHANGED <<pc, job, valid_images, metricVars, factoryVars>>

\* download_images returns; main() hands the list to convert_and_filter_images
DownloadReturn ==
    /\ pc = "download" /\ idx > Len(job.urls)
    /\ pc' = "convert" /\ idx' = 1
    /\ UNCHANGED <<job, disk, downloaded_files, valid_images, trail,
                   metricVars, factoryVars>>

\* one iteration of the loop of convert_and_filter_images
ConvertStep ==
    /\ pc = "convert" /\ idx <= Len(downloaded_files)
    /\ LET input_file == downloaded_files[idx]
           img == disk[input_file]
           failed == img.kind # "image"
           meets == /\ ~failed
                    /\ MeetsCriteria(img.w, img.h, job.min_side, job.max_pixels)
       IN  /\ valid_images' = IF meets THEN Append(valid_images, OutputName(input_file))
                              ELSE valid_images
           /\ trail' = Append(trail,
                          IF failed THEN
                              [phase |-> "convert", item |-> idx, what |-> "failed"]
                          ELSE IF meets THEN
                              [phase |-> "convert", item |-> idx, what |-> "saved",
                               size |-> <<img.w, img.h>>,
                               box |-> CropBox(img.w, img.h, job.image_size)]
                          ELSE
                              [phase |-> "convert", item |-> idx, what |-> "skipped",
                               size |-> <<img.w, img.h>>])
           /\ idx' = NextItem(idx, Len(downloaded_files), failed)
    /\ UNCHANGED <<pc, job, disk, downloaded_files, metricVars, factoryVars>>

\* convert_and_filter_images returns
ConvertReturn ==
    /\ pc = "convert" /\ idx > Len(downloaded_files)
    /\ pc' = "done"
    /\ UNCHANGED <<job, idx, disk, downloaded_files, valid_images, trail,
                   metricVars, factoryVars>>

\* the URLs of the CSV column: what fetching each gives
Names == {FileName("a", "jpg"), FileName("a", "gif"), FileName("b", "jpg")}
Bodies == {Picture(2, 3), Picture(3, 1), Junk}
Urls ==
    {[name |-> n, fetch |-> "ok", body |-> b] : n \in Names, b \in Bodies}
    \cup {[name |-> n, fetch |-> f, body |-> Junk] :
            n \in Names, f \in {"http_error", "write_error"}}

BatchJobs ==
    {[urls |-> us, min_side |-> ms, max_pixels |-> None, image_size |-> 2] :
        us \in UNION {[1..k -> Urls] : k \in 0..MaxUrls},
        ms \in {None, Some(2)}}

\* one downloaded picture of every size, under every filter and crop size
CropJobs ==
    {[urls |-> <<[name |-> FileName("a", "jpg"), fetch |-> "ok", body |-> Picture(w, h)]>>,
      min_side |-> ms, max_pixels |-> mp, image_size |-> sz] :
        w \in 1..MaxSide, h \in 1..MaxSide,
        ms \in {None} \cup {Some(v) : v \in 1..MaxSide},
        mp \in {None, Some(MaxSide), Some(2 * MaxSide)},
        sz \in 1..(MaxSide + 1)}

StartScript(jobs) ==
    /\ pc = "download" /\ idx = 1 /\ job \in jobs /\ disk = <<>>
    /\ downloaded_files = <<>> /\ valid_images = <<>> /\ trail = <<>>

\* --------------------------------------------------------- specifications

IdleMetric ==
    /\ cache = <<>> /\ interpCache = <<>> /\ returned = <<>>
    /\ last = NoCall

IdleFactory == made = [outcome |-> "none"]

IdleScript ==
    /\ pc = "idle" /\ job = <<>> /\ idx = 0 /\ disk = <<>>
    /\ downloaded_files = <<>> /\ valid_images = <<>> /\ trail = <<>>

\* The cache is exercised with two one-image datasets and with the metrics
\* that differ from the base metric of their class in at most one parameter
\* (and in num_workers): every part of a cache key varies on its own.
CacheDatasets == {<<img>> : img \in {i \in AllImages : i.h = 64}}

BaseMetric(cls) ==
    IF cls = "JPEG" THEN JPEG(DefaultQuality, Some(32), Some(32), 0)
    ELSE IF cls = "Variance" THEN Variance(Some(32), Some(32), DefaultNeighborhood, 0)
    ELSE Meaningful(DefaultCompMeasParams, Some(32), Some(32), 0)

CacheMetrics ==
    {m \in AllMetrics :
        Cardinality({f \in (DOMAIN m) \ {"cls", "num_workers"} :
                        m[f] # BaseMetric(m.cls)[f]}) <= 1}

InitCompute ==
    /\ IdleMetric /\ IdleFactory /\ IdleScript
    /\ budget = 1
    /\ universe = [datasets |-> Datasets(MaxImages), metrics |-> AllMetrics]

InitCache ==
    /\ IdleMetric /\ IdleFactory /\ IdleScript
    /\ budget = MaxCalls
    /\ universe = [datasets |-> CacheDatasets, metrics |-> CacheMetrics]

NextMetric == Compute

InitFactory ==
    /\ IdleMetric /\ IdleFactory /\ IdleScript
    /\ budget = 0
    /\ universe = [datasets |-> {}, metrics |-> {}]

NextFactory == FromConfig \/ FromConfigAgain

InitScript ==
    /\ IdleMetric /\ IdleFactory /\ StartScript(BatchJobs)
    /\ budget = 0
    /\ universe = [datasets |-> {}, metrics |-> {}]

InitCrop ==
    /\ IdleMetric /\ IdleFactory /\ StartScript(CropJobs)
    /\ budget = 0
    /\ universe = [datasets |-> {}, metrics |-> {}]

NextScript == DownloadStep \/ DownloadReturn \/ ConvertStep \/ ConvertReturn

SpecScript == InitScript /\ [][NextScript]_vars
SpecCrop == InitCrop /\ [][NextScript]_vars
SpecFactory == InitFactory /\ [][NextFactory]_vars
SpecCompute == InitCompute /\ [][NextMetric]_vars
SpecCache == InitCache /\ [][NextMetric]_vars

\* ------------------------------------------------------------------ claims

Called == last.outcome # "none"
Returned == last.outcome = "ok"

\* C1: a compute call whose dataset and metric parameters (num_workers
\* included) equal those of an earlier call that returned gets the very result
\* that earlier call returned, and the backend body does not run again.
C1_CacheIdempotent ==
    (Called /\ last.repeat) =>
        /\ Returned
        /\ ~last.ran
        /\ last.result = returned[last.call]

C1_Witness == Called /\ last.repeat /\ Returned /\ last.hit

\* two backend calls that agree on the function and on every argument but
\* num_workers
SameButWorkers(c, d) ==
    /\ c.fn = d.fn
    /\ \A f \in (DOMAIN c.args) \ {"num_workers"} : c.args[f] = d.args[f]

\* C2: the cache entry of a backend call is decided by the dataset and every
\* parameter but num_workers: a call that differs from an earlier returned
\* call only in num_workers is a hit, a hit is always on an entry stored by a
\* returned call that differs at most in num_workers, and the table a hit returns is
\* the table the body would compute for the arguments of the hit.
C2_CacheKey ==
    Called =>
        /\ (\E c \in DOMAIN returned : c # last.call /\ SameButWorkers(c, last.call))
                => last.hit
        /\ last.hit =>
            /\ \/ last.repeat
               \/ \E c \in DOMAIN returned :
                    c # last.call /\ SameButWorkers(c, last.call)
            /\ LET fresh == RunBackend(last.call.fn, last.call.args)
               IN  /\ fresh.ok
                   /\ last.result.scores = [table |-> fresh.table, dtype |-> fresh.dtype]

C2_Witness ==
    /\ Called /\ last.hit /\ ~last.repeat
    /\ \E c \in DOMAIN returned :
            /\ SameButWorkers(c, last.call)
            /\ c.args.num_workers # last.call.args.num_workers

\* the geometry and the patches of image i of the latest call
LastArgs == last.call.args

LastPatches(i) ==
    PatchesOf(LastArgs.ds[i], LastArgs.patch_size, LastArgs.patch_stride)

LastTable == last.result.scores.table

IsRagged64x128 ==
    /\ Called
    /\ last.call.fn = "_compute_variance"
    /\ LastArgs.patch_size = Some(32) /\ LastArgs.patch_stride = Some(32)
    /\ Len(LastArgs.ds) = 2
    /\ LastArgs.ds[1].h = 64 /\ LastArgs.ds[1].w = 64
    /\ LastArgs.ds[2].h = 128 /\ LastArgs.ds[2].w = 128

\* C5: on a two-image dataset of a 64x64 and a 128x128 image, with patch size
\* 32 and stride 32, the variance metric's compute returns a table of 2 rows,
\* row 0 of 4 patches and row 1 of 16 patches.
C5_RaggedTable ==
    IsRagged64x128 =>
        /\ Returned
        /\ Len(LastTable) = 2
        /\ Len(LastTable[1]) = 4
        /\ Len(LastTable[2]) = 16

\* C6: when compute returns, the table has one row per dataset image, row i
\* holds the scores of the patches of image i in extraction order, and the
\* file names are the base names of the image paths in the same order,
\* whatever num_workers is.
C6_RowOrder ==
    Returned =>
        /\ Len(LastTable) = Len(LastArgs.ds)
        /\ Len(last.files) = Len(LastArgs.ds)
        /\ \A i \in 1..Len(LastArgs.ds) :
            /\ last.files[i] = LastArgs.ds[i].path[Len(LastArgs.ds[i].path)]
            /\ Len(LastTable[i]) = Len(LastPatches(i))
            /\ \A j \in 1..Len(LastPatches(i)) :
                LastTable[i][j].num =
                    PatchScore(last.call.fn, last.call.args, LastPatches(i)[j])

C6_Witness ==
    /\ Returned
    /\ LastArgs.num_workers > 0
    /\ Len(LastArgs.ds) = MaxImages
    /\ \E i, j \in 1..Len(LastArgs.ds) : LastTable[i] # LastTable[j]
    /\ \E i, j \in 1..Len(LastArgs.ds) : last.files[i] # last.files[j]

\* C7: every value of a returned table is the raw score of its patch divided
\* by the pixel area (height x width) of that same patch.
C7_OwnArea ==
    Returned =>
        \A i \in 1..Len(LastTable) : \A j \in 1..Len(LastTable[i]) :
            LastTable[i][j] =
                Quotient(PatchScore(last.call.fn, last.call.args, LastPatches(i)[j]),
                         LastPatches(i)[j].h * LastPatches(i)[j].w)

\* C9: in the meaningful backend a uniform patch scores exactly 0 and is not
\* handed to cached_meaningful_interpret; a non-uniform patch is handed to it
\* and scores the sum of the estimate divided by the pixel area of the patch.
C9_UniformShortCircuit ==
    (Returned /\ last.call.fn = "_compute_meaningful" /\ last.ran) =>
        \A i \in 1..Len(LastTable) : \A j \in 1..Len(LastTable[i]) :
            LET patch == LastPatches(i)[j]
                handed == \E n \in 1..Len(last.interpret_calls) :
                            last.interpret_calls[n] = patch
            IN  IF patch.uniform
                THEN LastTable[i][j].num = Zero /\ ~handed
                ELSE /\ handed
                     /\ LastTable[i][j] =
                            [num |-> Interpret(LastArgs.comp_meas_params, patch.px),
                             den |-> patch.h * patch.w]

\* C9, the part the normalization does not touch: uniform patches score 0
\* unhanded, non-uniform ones are handed over and score the estimate's sum
\* over the divisor of the run.
C9_ShortCircuitOnly ==
    (Returned /\ last.call.fn = "_compute_meaningful" /\ last.ran) =>
        \A i \in 1..Len(LastTable) : \A j \in 1..Len(LastTable[i]) :
            LET patch == LastPatches(i)[j]
                handed == \E n \in 1..Len(last.interpret_calls) :
                            last.interpret_calls[n] = patch
            IN  IF patch.uniform
                THEN LastTable[i][j].num = Zero /\ ~handed
                ELSE /\ handed
                     /\ LastTable[i][j].num =
                            Interpret(LastArgs.comp_meas_params, patch.px)

\* ---- the factory

\* str(q) of an integer q: a "-" for a negative one, then its decimal digits
RECURSIVE NatToTokens(_)
NatToTokens(n) ==
    IF n < 10 THEN <<Digits[n + 1]>>
    ELSE Append(NatToTokens(n \div 10), Digits[(n % 10) + 1])

IntToTokens(q) == IF q < 0 THEN <<"-">> \o NatToTokens(0 - q) ELSE NatToTokens(q)

MaxQuality == 100

\* the strings "jpeg_<q>", each with its q
JpegConfigs ==
    {<<q, <<"jpeg", "_">> \o IntToTokens(q)>> : q \in (0 - MaxQuality)..MaxQuality}

FactoryCalled == made.outcome = "called"

\* C3: every config string other than "jpeg_<quality>", "variance" and
\* "meaningful" is refused with NotImplementedError, and no metric is
\* constructed for it.
C3_UnknownRefused ==
    (/\ FactoryCalled
     /\ made.config # <<"variance">>
     /\ made.config # <<"meaningful">>
     /\ ~(/\ Len(made.config) >= 3
          /\ made.config[1] = "jpeg" /\ made.config[2] = "_"
          /\ IntParses(SubSeq(made.config, 3, Len(made.config)))))
    => /\ made.result.outcome = "raise"
       /\ made.result.error = "NotImplementedError"
       /\ made.result.constructed = 0

\* C4: "jpeg_<q>" gives a JPEG metric of quality q, "variance" a Variance
\* metric and "meaningful" a Meaningful metric, each with the patch_size,
\* patch_stride and num_workers passed in; a second call with the same
\* arguments gives an equally configured metric.
C4_FactoryBuilds ==
    FactoryCalled =>
        LET r == made.result
            carries == /\ r.metric.patch_size = made.shared.patch_size
                       /\ r.metric.patch_stride = made.shared.patch_stride
                       /\ r.metric.num_workers = made.shared.num_workers
        IN  /\ \A e \in JpegConfigs :
                made.config = e[2] =>
                    /\ r.outcome = "metric"
                    /\ r.metric.cls = "JPEG"
                    /\ r.metric.quality = e[1]
                    /\ carries
            /\ made.config = <<"variance">> =>
                    r.outcome = "metric" /\ r.metric.cls = "Variance" /\ carries
            /\ made.config = <<"meaningful">> =>
                    r.outcome = "metric" /\ r.metric.cls = "Meaningful" /\ carries
            /\ made.nth = 2 => made.before = <<r>>

C4_Witness ==
    /\ FactoryCalled
    /\ made.config = <<"jpeg", "_", "-", "7">>
    /\ made.result.outcome = "metric"
    /\ made.result.metric.quality = 0 - 7
    /\ made.shared.patch_size # made.shared.patch_stride
    /\ made.nth = 2

\* ---- the utility script

TrailOf(phase) == SelectSeq(trail, LAMBDA e : e.phase = phase)

\* every item 1..n was attempted once, in order
AttemptedAll(phase, n) ==
    /\ Len(TrailOf(phase)) = n
    /\ \A i \in 1..n : TrailOf(phase)[i].item = i

NamesOf(files) == [i \in 1..Len(files) |-> files[i].name]

Converts(input_file) ==
    /\ disk[input_file].kind = "image"
    /\ MeetsCriteria(disk[input_file].w, disk[input_file].h,
                     job.min_side, job.max_pixels)

OutputsOf(files) == [i \in 1..Len(files) |-> OutputName(files[i])]

\* C8: a failed download or a failed conversion is skipped and the loop goes
\* on: every URL and every downloaded file is attempted, each function
\* returns, download_images returns the names of exactly the URLs that
\* downloaded, in input order, and convert_and_filter_images the outputs of
\* exactly the files that were converted, in input order.
C8_FailuresSkipped ==
    /\ pc \in {"download", "convert"} => ENABLED NextScript
    /\ pc \in {"convert", "done"} =>
        /\ AttemptedAll("download", Len(job.urls))
        /\ downloaded_files =
                NamesOf(SelectSeq(job.urls, LAMBDA u : u.fetch = "ok"))
    /\ pc = "done" =>
        /\ AttemptedAll("convert", Len(downloaded_files))
        /\ valid_images =
                OutputsOf(SelectSeq(downloaded_files, LAMBDA f : Converts(f)))

C8_Witness ==
    /\ pc = "done"
    /\ \E i, j \in 1..Len(trail) :
        /\ i < j
        /\ trail[i].phase = "download" /\ trail[i].what = "failed"
        /\ trail[j].phase = "download" /\ trail[j].what = "downloaded"
    /\ \E i, j \in 1..Len(trail) :
        /\ i < j
        /\ trail[i].phase = "convert" /\ trail[i].what = "failed"
        /\ trail[j].phase = "convert" /\ trail[j].what = "saved"

Smaller(a, b) == IF a <= b THEN a ELSE b

Opened == {i \in 1..Len(trail) : trail[i].phase = "convert" /\ trail[i].what # "failed"}

PassesFilter(w, h) ==
    /\ (job.min_side = None \/ Smaller(w, h) >= job.min_side[1])
    /\ (job.max_pixels = None \/ w * h <= job.max_pixels[1])

====
